---- MODULE Spec2Model ----
(***************************************************************************)
(* Model of the WFC3/UVIS pixel-area-map (PAM) correction of the notebook  *)
(* WFC3_UVIS_Pixel_Area_Map_Corrections_for_Subarrays.ipynb:               *)
(* make_PAMcorr_image_UVIS(data, scihdr, pamdir) and the session that      *)
(* calls it on images and headers read from FITS files.                    *)
(*                                                                         *)
(* Arrays are numpy 2-D arrays: a shape <<rows, cols>> and a cell function *)
(* over 0-based <<row, col>> indices.  Objects live in a heap (mem) and    *)
(* are named by references, so that "a new array" and "the same array"     *)
(* differ.  Header values LTV1/LTV2 are real numbers; they are kept as     *)
(* integer numerators over the denominator LtvDen (n stands for n/LtvDen). *)
(* Pixel and map values are floating-point numbers with MantBits           *)
(* significant bits (and no bound on the exponent), here with integer      *)
(* values: a product is rounded to the nearest such number, ties to even.  *)
(*                                                                         *)
(* The cell of the display notebook that downloads two images from MAST    *)
(* and moves them to the working directory is modelled with the files and  *)
(* directories under that directory; a path is the sequence of its         *)
(* components ('a/b/c' is <<"a", "b", "c">>).                              *)
(***************************************************************************)
EXTENDS Integers, Sequences, FiniteSets, TLC

\* ------------------------------------------------------------------ bounds
\* Largest number of rows / columns of a science image.
MaxDim == 2
\* LTV1 and LTV2 range over -MaxLtv/LtvDen .. MaxLtv/LtvDen.
MaxLtv == 3
\* Denominator of the fixed-point representation of LTV1 and LTV2.
LtvDen == 2
\* Rows and columns of each pixel area map.
MapDim == 2
\* CCDCHIP ranges over 1..MaxChip (1 = UVIS1, 2 = UVIS2, others unsupported).
MaxChip == 3
\* Significant bits of a floating-point number.
MantBits == 10
\* The archive lists its products from the first one or up to MaxShift later.
MaxShift == 2

\* ------------------------------------------------------------------ values
Keys == {"LTV1", "LTV2", "NAXIS1", "NAXIS2", "CCDCHIP"}

Idx(h, w) == (0..(h - 1)) \X (0..(w - 1))

Min(a, b) == IF a < b THEN a ELSE b

Max(a, b) == IF a > b THEN a ELSE b

\* A science image of h rows and w columns; every pixel has its own value
\* (10, 20, 30, ... in row-major order).
Image(h, w) ==
    [shape |-> <<h, w>>,
     cell  |-> [p \in Idx(h, w) |-> 10 * (p[1] * w + p[2] + 1)]]

\* The pixel area map of a chip: MapDim x MapDim, every cell its own value,
\* and no value shared between the two chips.
Pam(chip) ==
    [shape |-> <<MapDim, MapDim>>,
     cell  |-> [p \in Idx(MapDim, MapDim) |->
                   (chip - 1) * MapDim * MapDim + p[1] * MapDim + p[2] + 1]]

pamdir == ""

UVIS1 == pamdir \o "UVIS1wfc3_map.fits"

UVIS2 == pamdir \o "UVIS2wfc3_map.fits"

\* The two map files of the working directory.
PamFiles == (UVIS1 :> Pam(1)) @@ (UVIS2 :> Pam(2))

\* A map of h rows and w columns with the same value in every cell.
Filled(h, w, v) == [shape |-> <<h, w>>, cell |-> [p \in Idx(h, w) |-> v]]

\* Map files whose values are 1: everywhere for UVIS1, on the first row only
\* for UVIS2.
UnitFiles ==
    (UVIS1 :> Filled(MapDim, MapDim, 1))
    @@ (UVIS2 :> [shape |-> <<MapDim, MapDim>>,
                  cell  |-> [p \in Idx(MapDim, MapDim) |->
                                IF p[1] = 0 THEN 1 ELSE 2]])

\* Map files of 4 x 4 cells with one value each.
FilledFiles == (UVIS1 :> Filled(4, 4, 2)) @@ (UVIS2 :> Filled(4, 4, 3))

\* A working directory that holds a map file for a third chip as well.
UVIS3 == pamdir \o "UVIS3wfc3_map.fits"

ThreeFiles == PamFiles @@ (UVIS3 :> Pam(3))

\* The working directories a session can find.
MapSets == {PamFiles, UnitFiles, FilledFiles, ThreeFiles}

\* The values a header keyword can hold.
KeyValues(k) ==
    CASE k \in {"LTV1", "LTV2"}     -> (-MaxLtv)..MaxLtv
      [] k \in {"NAXIS1", "NAXIS2"} -> 1..MaxDim
      [] k = "CCDCHIP"              -> 1..MaxChip

Headers == [LTV1 : KeyValues("LTV1"), LTV2 : KeyValues("LTV2"),
            NAXIS1 : KeyValues("NAXIS1"), NAXIS2 : KeyValues("NAXIS2"),
            CCDCHIP : KeyValues("CCDCHIP")]

\* ------------------------------------------------------------------ state
VARIABLES
    disk,      \* the map files: path -> array
    mem,       \* the heap: reference -> array
    data,      \* the caller's image (data_1024): a reference into mem
    scihdr,    \* the caller's header (scihdr_1024): keyword -> value
    pamcorr,   \* outcome of the last call: unbound, an array, or a raise
    corners,   \* the locals x0, y0, x1, y1 of the last call
    opened,    \* the map files the last call read, in order
    earlier,   \* TRUE once a call was made on an earlier image of the session
    memo,      \* an earlier call of the session, kept: its arguments and outcome
    nb,        \* the step-by-step cells: the next cell to run, x0, y0, x1, y1
               \* and pamcorr_data_512 (arrays by their contents)
    th,        \* the calls running in threads: for each its arguments, the
               \* statement it is at, its locals and its outcome
    dl         \* the download cell of the display notebook: the statement it
               \* is at, its names and the files and directories under cwd

\* The state that the cells of the session above leave alone.
aside == <<memo, nb, th, dl>>

vars == <<disk, mem, data, scihdr, pamcorr, corners, opened, earlier, aside>>

NoMemo == [set |-> FALSE]

NoDownload == [pc |-> "idle"]

NoCells == [pc |-> "corners", corners |-> [set |-> FALSE], out |-> [kind |-> "unbound"]]

Unbound == [kind |-> "unbound"]

NoCorners == [set |-> FALSE]

KeyError(k) == [type |-> "KeyError", arg |-> k]

ChipCaseNotHandled == [type |-> "Exception", arg |-> "Chip case not handled."]

BroadcastError ==
    [type |-> "ValueError", arg |-> "operands could not be broadcast together"]

FileNotFound(path) == [type |-> "FileNotFoundError", arg |-> path]

\* ------------------------------------------------------------------ numpy
\* The smallest reference not in use.
NewRef(m) ==
    CHOOSE r \in 0..Cardinality(DOMAIN m) :
        r \notin DOMAIN m /\ \A s \in 0..(r - 1) : s \in DOMAIN m

\* The heap with only the objects named in keep.
Restrict(m, keep) == [r \in (DOMAIN m) \cap keep |-> m[r]]

\* np.copy(a): a new object with the contents of a.
np_copy(m, ref) ==
    LET new == NewRef(m)
    IN  [mem |-> (new :> m[ref]) @@ m, ref |-> new]

\* Variant of int_np_abs that rounds to the nearest integer (halves up)
\* where int() truncates.
int_np_abs_rounding(n) ==
    ((IF n < 0 THEN -n ELSE n) + LtvDen \div 2) \div LtvDen

\* Variant of int_np_abs that takes the offset as -v where the code takes
\* |v|, and no offset where that is negative.
int_np_abs_negated(n) == (IF n < 0 THEN -n ELSE 0) \div LtvDen

\* int(np.abs(v)) for the real v = n / LtvDen: the absolute value, then the
\* truncation toward zero of int().
int_np_abs(n) == (IF n < 0 THEN -n ELSE n) \div LtvDen

\* The cells of a on rows r0..r1-1 and columns c0..c1-1, for bounds already
\* clipped to the axis lengths (none when a stop is not past its start).
Cut(a, r0, r1, c0, c1) ==
    [shape |-> <<Max(r1 - r0, 0), Max(c1 - c0, 0)>>,
     cell  |-> [p \in Idx(Max(r1 - r0, 0), Max(c1 - c0, 0)) |->
                   a.cell[<<r0 + p[1], c0 + p[2]>>]]]

\* Variant of Slice with the axes exchanged: a[x0:x1, y0:y1].
Slice_transposed(a, y0, y1, x0, x1) ==
    Cut(a, Min(x0, a.shape[1]), Min(x1, a.shape[1]),
           Min(y0, a.shape[2]), Min(y1, a.shape[2]))

\* Variant of Slice whose stops are inclusive: a[y0:y1+1, x0:x1+1].
Slice_inclusive_stop(a, y0, y1, x0, x1) ==
    Cut(a, Min(y0, a.shape[1]), Min(y1 + 1, a.shape[1]),
           Min(x0, a.shape[2]), Min(x1 + 1, a.shape[2]))

\* a[y0:y1, x0:x1] for non-negative bounds: numpy clips each bound to the
\* axis length, silently, and yields the cells in between.
Slice(a, y0, y1, x0, x1) ==
    Cut(a, Min(y0, a.shape[1]), Min(y1, a.shape[1]),
           Min(x0, a.shape[2]), Min(x1, a.shape[2]))

\* numpy broadcasting of two 2-D shapes: on each axis the lengths are equal
\* or one of them is 1.
Broadcastable(s, t) == \A i \in 1..2 : s[i] = t[i] \/ s[i] = 1 \/ t[i] = 1

BroadcastShape(s, t) == [i \in 1..2 |-> IF s[i] = 1 THEN t[i] ELSE s[i]]

\* The cell of an operand of shape s that meets cell p of the result.
BroadcastIndex(s, p) == [i \in 1..2 |-> IF s[i] = 1 THEN 0 ELSE p[i]]

\* The number of bits of the natural number x.
RECURSIVE BitLen(_)
BitLen(x) == IF x = 0 THEN 0 ELSE 1 + BitLen(x \div 2)

\* The floating-point number nearest to the natural number x: x itself when
\* it has at most MantBits bits, else its MantBits leading bits, rounded to
\* nearest with ties to even.
fl(x) ==
    IF x < 2 ^ MantBits THEN x
    ELSE LET sh == BitLen(x) - MantBits
             q  == x \div (2 ^ sh)
             r  == x % (2 ^ sh)
             h  == 2 ^ (sh - 1)
         IN  IF r > h \/ (r = h /\ q % 2 = 1)
             THEN (q + 1) * (2 ^ sh)
             ELSE q * (2 ^ sh)

\* Variant of Multiply that adds the operands.
Multiply_add(a, b) ==
    LET s == BroadcastShape(a.shape, b.shape)
    IN  [shape |-> s,
         cell  |-> [p \in Idx(s[1], s[2]) |->
                       fl(a.cell[BroadcastIndex(a.shape, p)]
                          + b.cell[BroadcastIndex(b.shape, p)])]]

\* a * b for broadcastable a and b: a new array, the elementwise
\* floating-point product.
Multiply(a, b) ==
    LET s == BroadcastShape(a.shape, b.shape)
    IN  [shape |-> s,
         cell  |-> [p \in Idx(s[1], s[2]) |->
                       fl(a.cell[BroadcastIndex(a.shape, p)]
                          * b.cell[BroadcastIndex(b.shape, p)])]]

\* Variant of fits_getdata that opens the file for update and writes the
\* array back rescaled when it closes it.
fits_getdata_update(m, fs, path) ==
    LET new == NewRef(m)
    IN  [mem  |-> (new :> fs[path]) @@ m,
         ref  |-> new,
         disk |-> [fs EXCEPT ![path].cell =
                      [p \in DOMAIN fs[path].cell |-> 2 * fs[path].cell[p]]]]

\* fits.getdata(path): a new array with the contents of the file; the file
\* is opened read-only and is left as it was.
fits_getdata(m, fs, path) ==
    LET new == NewRef(m)
    IN  [mem |-> (new :> fs[path]) @@ m, ref |-> new, disk |-> fs]

\* ------------------------------------------------- make_PAMcorr_image_UVIS
\* What a call leaves behind: the heap, the outcome (out), the locals
\* x0, y0, x1, y1, the files read and the files on disk.
Raised(m, e, cs, op, fs) ==
    [mem |-> m, out |-> [kind |-> "raise", exc |-> e],
     corners |-> cs, opened |-> op, disk |-> fs]

Returned(m, ref, cs, op, fs) ==
    [mem |-> m, out |-> [kind |-> "array", ref |-> ref],
     corners |-> cs, opened |-> op, disk |-> fs]

\* x0 = int(np.abs(scihdr['LTV1'])); y0 = int(np.abs(scihdr['LTV2']));
\* x1 = int(x0 + scihdr['NAXIS1']);  y1 = int(y0 + scihdr['NAXIS2'])
\* (NAXIS1 and NAXIS2 are integers, so the outer int() changes nothing).
Corners(hdr) ==
    LET x0 == int_np_abs(hdr["LTV1"])
        y0 == int_np_abs(hdr["LTV2"])
    IN  [set |-> TRUE, x0 |-> x0, y0 |-> y0,
         x1 |-> x0 + hdr["NAXIS1"], y1 |-> y0 + hdr["NAXIS2"]]

\* The first of the four geometry keywords, in the order the function reads
\* them, that the header lacks ("" when it has them all).
FirstMissing(hdr) ==
    CASE "LTV1"   \notin DOMAIN hdr -> "LTV1"
      [] "LTV2"   \notin DOMAIN hdr -> "LTV2"
      [] "NAXIS1" \notin DOMAIN hdr -> "NAXIS1"
      [] "NAXIS2" \notin DOMAIN hdr -> "NAXIS2"
      [] OTHER -> ""

\* Variant of ChipFile with the two file names exchanged.
ChipFile_swapped(chip) ==
    CASE chip = 1 -> UVIS2
      [] chip = 2 -> UVIS1
      [] OTHER    -> ""

\* Variant of ChipFile that names the file after the chip, whatever the chip.
ChipFile_by_name(chip) ==
    CASE chip = 1 -> UVIS1
      [] chip = 2 -> UVIS2
      [] chip = 3 -> UVIS3
      [] OTHER    -> ""

\* Variant of ChipFile whose else branch falls back on the UVIS1 map.
ChipFile_default(chip) ==
    CASE chip = 2 -> UVIS2
      [] OTHER    -> UVIS1

\* The if / elif / else on scihdr['CCDCHIP']: the map file of the branch
\* taken, "" for the else branch.
ChipFile(chip) ==
    CASE chip = 1 -> UVIS1
      [] chip = 2 -> UVIS2
      [] OTHER    -> ""

\* Variant of PamBranch that reads both map files before it takes the one
\* of the branch.
PamBranch_both(m0, m, ref, cs, fs, path) ==
    LET pam    == fits_getdata(m, fs, path)
        region == Slice(pam.mem[pam.ref], cs.y0, cs.y1, cs.x0, cs.x1)
        new    == NewRef(pam.mem)
    IN  IF path \notin DOMAIN fs
        THEN Raised(m0, FileNotFound(path), cs, <<>>, fs)
        ELSE IF ~Broadcastable(m[ref].shape, region.shape)
        THEN Raised(m0, BroadcastError, cs, <<UVIS1, UVIS2>>, pam.disk)
        ELSE Returned((new :> Multiply(m[ref], region)) @@ m0,
                      new, cs, <<UVIS1, UVIS2>>, pam.disk)

\* The body of a branch: pam = fits.getdata(path);
\* pamcorr_data = data * pam[y0:y1, x0:x1]; return pamcorr_data.
\* m0 is the caller's heap, m the heap inside the call, ref the local data.
PamBranch(m0, m, ref, cs, fs, path) ==
    LET pam    == fits_getdata(m, fs, path)
        region == Slice(pam.mem[pam.ref], cs.y0, cs.y1, cs.x0, cs.x1)
        new    == NewRef(pam.mem)
    IN  IF path \notin DOMAIN fs
        THEN Raised(m0, FileNotFound(path), cs, <<>>, fs)
        ELSE IF ~Broadcastable(m[ref].shape, region.shape)
        THEN Raised(m0, BroadcastError, cs, <<path>>, pam.disk)
        ELSE Returned((new :> Multiply(m[ref], region)) @@ m0,
                      new, cs, <<path>>, pam.disk)

\* Variant of make_PAMcorr_image_UVIS without the np.copy and with the
\* product taken in place: data *= pam[y0:y1, x0:x1]; return data.
make_PAMcorr_image_UVIS_inplace(m, d, hdr, fs) ==
    IF FirstMissing(hdr) # ""
    THEN Raised(m, KeyError(FirstMissing(hdr)), NoCorners, <<>>, fs)
    ELSE IF "CCDCHIP" \notin DOMAIN hdr
    THEN Raised(m, KeyError("CCDCHIP"), Corners(hdr), <<>>, fs)
    ELSE IF ChipFile(hdr["CCDCHIP"]) = ""
    THEN Raised(m, ChipCaseNotHandled, Corners(hdr), <<>>, fs)
    ELSE LET cs     == Corners(hdr)
             path   == ChipFile(hdr["CCDCHIP"])
             pam    == fits_getdata(m, fs, path)
             region == Slice(pam.mem[pam.ref], cs.y0, cs.y1, cs.x0, cs.x1)
         IN  IF \/ ~Broadcastable(m[d].shape, region.shape)
                \/ BroadcastShape(m[d].shape, region.shape) # m[d].shape
             THEN Raised(m, BroadcastError, cs, <<path>>, pam.disk)
             ELSE Returned([m EXCEPT ![d] = Multiply(m[d], region)],
                           d, cs, <<path>>, pam.disk)

\* Variant of make_PAMcorr_image_UVIS that tests the corners against the
\* size of the maps before it looks at the chip.
make_PAMcorr_image_UVIS_bounds_first(m, d, hdr, fs) ==
    LET copy == np_copy(m, d)
    IN  IF FirstMissing(hdr) # ""
        THEN Raised(m, KeyError(FirstMissing(hdr)), NoCorners, <<>>, fs)
        ELSE IF Corners(hdr).x1 > MapDim \/ Corners(hdr).y1 > MapDim
        THEN Raised(m, BroadcastError, Corners(hdr), <<>>, fs)
        ELSE IF "CCDCHIP" \notin DOMAIN hdr
        THEN Raised(m, KeyError("CCDCHIP"), Corners(hdr), <<>>, fs)
        ELSE IF ChipFile(hdr["CCDCHIP"]) = ""
        THEN Raised(m, ChipCaseNotHandled, Corners(hdr), <<>>, fs)
        ELSE PamBranch(m, copy.mem, copy.ref, Corners(hdr), fs,
                       ChipFile(hdr["CCDCHIP"]))

\* The function: data = np.copy(data), the four corners, then the chip's
\* branch or the raise of the else branch.  A keyword the header lacks
\* raises KeyError where it is first read.
make_PAMcorr_image_UVIS(m, d, hdr, fs) ==
    LET copy == np_copy(m, d)
    IN  IF FirstMissing(hdr) # ""
        THEN Raised(m, KeyError(FirstMissing(hdr)), NoCorners, <<>>, fs)
        ELSE IF "CCDCHIP" \notin DOMAIN hdr
        THEN Raised(m, KeyError("CCDCHIP"), Corners(hdr), <<>>, fs)
        ELSE IF ChipFile(hdr["CCDCHIP"]) = ""
        THEN Raised(m, ChipCaseNotHandled, Corners(hdr), <<>>, fs)
        ELSE PamBranch(m, copy.mem, copy.ref, Corners(hdr), fs,
                       ChipFile(hdr["CCDCHIP"]))

\* ------------------------------------------------------------------ session
\* The file of the session is opened: an image and the header stored with it.
Init ==
    /\ disk = PamFiles
    /\ \E h \in 1..MaxDim, w \in 1..MaxDim : mem = (0 :> Image(h, w))
    /\ data = 0
    /\ scihdr \in Headers
    /\ pamcorr = Unbound
    /\ corners = NoCorners
    /\ opened = <<>>
    /\ earlier = FALSE
    /\ memo = NoMemo
    /\ nb = NoCells
    /\ th = <<>>
    /\ dl = NoDownload

\* data = hdu[1].data of the next file, read after the call on the current
\* one: the caller's image is a new array.
ReadData(h, w) ==
    /\ pamcorr # Unbound
    /\ mem[data] # Image(h, w)
    /\ mem' = (0 :> Image(h, w))
    /\ data' = 0
    /\ pamcorr' = Unbound
    /\ corners' = NoCorners
    /\ opened' = <<>>
    /\ earlier' = TRUE
    /\ UNCHANGED <<disk, scihdr, aside>>

\* scihdr = hdu[1].header of the next file, a keyword at a time: the header
\* holds value v for keyword k.
ReadKeyword(k, v) ==
    /\ pamcorr # Unbound
    /\ IF k \in DOMAIN scihdr THEN scihdr[k] # v ELSE TRUE
    /\ scihdr' = [j \in (DOMAIN scihdr) \cup {k} |-> IF j = k THEN v ELSE scihdr[j]]
    /\ pamcorr' = Unbound
    /\ corners' = NoCorners
    /\ opened' = <<>>
    /\ mem' = Restrict(mem, {data})
    /\ UNCHANGED <<disk, data, earlier, aside>>

\* The header of the file lacks keyword k (at most one keyword is lacking).
LackKeyword(k) ==
    /\ pamcorr # Unbound
    /\ DOMAIN scihdr = Keys
    /\ scihdr' = [j \in Keys \ {k} |-> scihdr[j]]
    /\ pamcorr' = Unbound
    /\ corners' = NoCorners
    /\ opened' = <<>>
    /\ mem' = Restrict(mem, {data})
    /\ UNCHANGED <<disk, data, earlier, aside>>

\* Variant of Call in which a map loaded by the call before is kept and not
\* loaded again.
Call_cached ==
    LET r == make_PAMcorr_image_UVIS(mem, data, scihdr, disk)
    IN  /\ pamcorr' = r.out
        /\ mem' = Restrict(r.mem,
                           {data} \cup (IF r.out.kind = "array" THEN {r.out.ref} ELSE {}))
        /\ corners' = r.corners
        /\ opened' = IF pamcorr # Unbound /\ opened = r.opened THEN <<>> ELSE r.opened
        /\ disk' = r.disk
        /\ UNCHANGED <<data, scihdr, earlier, aside>>

\* pamcorr_data = make_PAMcorr_image_UVIS(data=data, scihdr=scihdr, pamdir='')
\* An earlier result stays alive during the call and is dropped when the
\* name is bound again.  When the call raises, no array is bound: pamcorr
\* then records the exception.
Call ==
    LET r == make_PAMcorr_image_UVIS(mem, data, scihdr, disk)
    IN  /\ pamcorr' = r.out
        /\ mem' = Restrict(r.mem,
                           {data} \cup (IF r.out.kind = "array" THEN {r.out.ref} ELSE {}))
        /\ corners' = r.corners
        /\ opened' = r.opened
        /\ disk' = r.disk
        /\ UNCHANGED <<data, scihdr, earlier, aside>>

Next ==
    \/ \E h \in 1..MaxDim, w \in 1..MaxDim : ReadData(h, w)
    \/ \E k \in Keys : \E v \in KeyValues(k) : ReadKeyword(k, v)
    \/ \E k \in Keys : LackKeyword(k)
    \/ Call

Spec == Init /\ [][Next]_vars

\* ------------------------------------------------------- the function alone
\* A call, and calls again, on arguments drawn once: an image, a header with
\* the five keywords and a working directory.
InitPure ==
    /\ disk \in MapSets
    /\ \E h \in 1..MaxDim, w \in 1..MaxDim : mem = (0 :> Image(h, w))
    /\ data = 0
    /\ scihdr \in Headers
    /\ pamcorr = Unbound
    /\ corners = NoCorners
    /\ opened = <<>>
    /\ earlier = FALSE
    /\ memo = NoMemo
    /\ nb = NoCells
    /\ th = <<>>
    /\ dl = NoDownload

NextPure == Call

SpecPure == InitPure /\ [][NextPure]_vars

\* ------------------------------------------------------- calls compared
\* What a call gave its caller: the array's contents, or the exception.
OutcomeValue ==
    IF pamcorr.kind = "array"
    THEN [kind |-> "array", value |-> mem[pamcorr.ref]]
    ELSE pamcorr

\* The scalars an image is multiplied by.
Scalars == {2, 69}

\* k * a for a scalar k: a new array, every cell the floating-point product.
Scaled(k, a) == [shape |-> a.shape, cell |-> [p \in DOMAIN a.cell |-> fl(k * a.cell[p])]]

\* The result of the call stays bound under a name of its own (as
\* pamcorr_data_1024 does while the next image is corrected), with the
\* arguments it was computed from.
Keep ==
    /\ pamcorr # Unbound
    /\ ~memo.set
    /\ memo' = [set |-> TRUE, image |-> mem[data], hdr |-> scihdr,
                out |-> OutcomeValue, between |-> FALSE]
    /\ UNCHANGED <<disk, mem, data, scihdr, pamcorr, corners, opened, earlier, nb, th, dl>>

\* Whether the call just made had other arguments than the call kept.
OtherArguments == mem[data] # memo.image \/ scihdr # memo.hdr

\* The next file holds the image of the call kept, under the current header
\* with the sign of LTV1 or LTV2 changed.
Negate(k) ==
    /\ memo.set
    /\ pamcorr # Unbound
    /\ mem[data] = memo.image
    /\ k \in DOMAIN scihdr
    /\ scihdr[k] # 0
    /\ scihdr' = [scihdr EXCEPT ![k] = -scihdr[k]]
    /\ pamcorr' = Unbound
    /\ corners' = NoCorners
    /\ opened' = <<>>
    /\ mem' = Restrict(mem, {data})
    /\ memo' = [memo EXCEPT !.between = @ \/ OtherArguments]
    /\ UNCHANGED <<disk, data, earlier, nb, th, dl>>

\* The next image is s * (the image of the call kept), under the same header.
Rescale(s) ==
    /\ memo.set
    /\ pamcorr # Unbound
    /\ mem[data] = memo.image
    /\ scihdr = memo.hdr
    /\ mem' = (0 :> Scaled(s, memo.image))
    /\ data' = 0
    /\ pamcorr' = Unbound
    /\ corners' = NoCorners
    /\ opened' = <<>>
    /\ memo' = [memo EXCEPT !.between = @ \/ OtherArguments]
    /\ UNCHANGED <<disk, scihdr, earlier, nb, th, dl>>

NextPair ==
    \/ Call
    \/ Keep
    \/ \E k \in {"LTV1", "LTV2"} : Negate(k)
    \/ \E s \in Scalars : Rescale(s)

\* The first file of the session is one the detector wrote: its LTV1 and
\* LTV2, where present, are not positive.
InitPair ==
    /\ Init
    /\ \A k \in {"LTV1", "LTV2"} : k \in DOMAIN scihdr => scihdr[k] <= 0

SpecPair == InitPair /\ [][NextPair]_vars

\* ------------------------------------------------- the step-by-step cells
\* The cells of sections 3 and 4.2 run in the notebook's order on the image
\* and header of the session; a cell that raises ends the run.
\*
\* x0 = int(np.abs(scihdr_512['LTV1'])); y0 = int(np.abs(scihdr_512['LTV2']))
\* x1 = int(x0 + scihdr_512['NAXIS1']);  y1 = int(y0 + scihdr_512['NAXIS2'])
CellCorners ==
    /\ nb.pc = "corners"
    /\ nb' = IF "LTV1" \notin DOMAIN scihdr
             THEN [nb EXCEPT !.pc = "done", !.out = [kind |-> "raise", exc |-> KeyError("LTV1")]]
             ELSE IF "LTV2" \notin DOMAIN scihdr
             THEN [nb EXCEPT !.pc = "done", !.out = [kind |-> "raise", exc |-> KeyError("LTV2")]]
             ELSE IF "NAXIS1" \notin DOMAIN scihdr
             THEN [nb EXCEPT !.pc = "done", !.out = [kind |-> "raise", exc |-> KeyError("NAXIS1")]]
             ELSE IF "NAXIS2" \notin DOMAIN scihdr
             THEN [nb EXCEPT !.pc = "done", !.out = [kind |-> "raise", exc |-> KeyError("NAXIS2")]]
             ELSE LET x0 == int_np_abs(scihdr["LTV1"])
                      y0 == int_np_abs(scihdr["LTV2"])
                  IN  [nb EXCEPT !.pc = "correct",
                                 !.corners = [set |-> TRUE, x0 |-> x0, y0 |-> y0,
                                              x1 |-> x0 + scihdr["NAXIS1"],
                                              y1 |-> y0 + scihdr["NAXIS2"]]]
    /\ UNCHANGED <<disk, mem, data, scihdr, pamcorr, corners, opened, earlier, memo, th, dl>>

\* pam = fits.getdata(path); pamcorr_data_512 = data_512 * pam[y0:y1, x0:x1]
CellProduct(path) ==
    IF path \notin DOMAIN disk
    THEN [out |-> [kind |-> "raise", exc |-> FileNotFound(path)], disk |-> disk]
    ELSE LET pam    == fits_getdata(mem, disk, path)
             cs     == nb.corners
             region == Slice(pam.mem[pam.ref], cs.y0, cs.y1, cs.x0, cs.x1)
         IN  IF ~Broadcastable(mem[data].shape, region.shape)
             THEN [out |-> [kind |-> "raise", exc |-> BroadcastError], disk |-> pam.disk]
             ELSE [out |-> [kind |-> "array", value |-> Multiply(mem[data], region)],
                   disk |-> pam.disk]

\* if scihdr_512['CCDCHIP'] == 1: ... elif scihdr_512['CCDCHIP'] == 2: ...
\* else: raise Exception('Chip case not handled.')
CellCorrect ==
    /\ nb.pc = "correct"
    /\ LET r == IF "CCDCHIP" \notin DOMAIN scihdr
                THEN [out |-> [kind |-> "raise", exc |-> KeyError("CCDCHIP")], disk |-> disk]
                ELSE IF scihdr["CCDCHIP"] = 1
                THEN CellProduct("UVIS1wfc3_map.fits")
                ELSE IF scihdr["CCDCHIP"] = 2
                THEN CellProduct("UVIS2wfc3_map.fits")
                ELSE [out |-> [kind |-> "raise", exc |-> ChipCaseNotHandled], disk |-> disk]
       IN  /\ nb' = [nb EXCEPT !.pc = "done", !.out = r.out]
           /\ disk' = r.disk
    /\ UNCHANGED <<mem, data, scihdr, pamcorr, corners, opened, earlier, memo, th, dl>>

NextCells ==
    \/ CellCorners
    \/ CellCorrect
    \/ Call

SpecCells == Init /\ [][NextCells]_vars

\* ------------------------------------------------------ calls in threads
\* Calls of the function run in threads of one interpreter, each on an image
\* and header of its own, all reading the map files of the one working
\* directory.  A thread takes the function a statement at a time; its frame
\* (th[t].mem: the arrays its names are bound to) is its own.
Threads == {1, 2}

\* The header of a subarray of n x n pixels at offset (ox, oy) on chip c.
ThreadHeader(n, ox, oy, c) ==
    [k \in Keys |->
        CASE k = "LTV1"    -> -(ox * LtvDen)
          [] k = "LTV2"    -> -(oy * LtvDen)
          [] k = "NAXIS1"  -> n
          [] k = "NAXIS2"  -> n
          [] k = "CCDCHIP" -> c]

\* A call about to start: data and scihdr bound to the arguments.
ThreadStart(n, ox, oy, c) ==
    [pc |-> "copy", mem |-> (0 :> Image(n, n)), data |-> 0,
     hdr |-> ThreadHeader(n, ox, oy, c), cs |-> NoCorners, path |-> "",
     pam |-> 0, out |-> Unbound]

ThreadStarts ==
    {ThreadStart(n, ox, oy, c) : n \in 1..MaxDim, ox \in 0..1, oy \in 0..1, c \in 1..MaxChip}

InitConc ==
    /\ disk = PamFiles
    /\ mem = (0 :> Image(1, 1))
    /\ data = 0
    /\ scihdr = ThreadHeader(1, 0, 0, 1)
    /\ pamcorr = Unbound
    /\ corners = NoCorners
    /\ opened = <<>>
    /\ earlier = FALSE
    /\ memo = NoMemo
    /\ nb = NoCells
    /\ th \in [Threads -> ThreadStarts]
    /\ dl = NoDownload

\* The statement of thread t raises e: the frame goes, the argument stays.
ThRaise(t, e) ==
    [th EXCEPT ![t] = [@ EXCEPT !.pc = "done",
                                !.mem = Restrict(@, {0}),
                                !.out = [kind |-> "raise", exc |-> e]]]

\* data = np.copy(data)
ThCopy(t) ==
    /\ th[t].pc = "copy"
    /\ LET c == np_copy(th[t].mem, th[t].data)
       IN  th' = [th EXCEPT ![t] = [@ EXCEPT !.pc = "corners", !.mem = c.mem, !.data = c.ref]]
    /\ UNCHANGED <<disk, mem, data, scihdr, pamcorr, corners, opened, earlier, memo, nb, dl>>

\* x0 = ...; y0 = ...; x1 = ...; y1 = ...
ThCorners(t) ==
    /\ th[t].pc = "corners"
    /\ th' = IF FirstMissing(th[t].hdr) # ""
             THEN ThRaise(t, KeyError(FirstMissing(th[t].hdr)))
             ELSE [th EXCEPT ![t] = [@ EXCEPT !.pc = "chip", !.cs = Corners(th[t].hdr)]]
    /\ UNCHANGED <<disk, mem, data, scihdr, pamcorr, corners, opened, earlier, memo, nb, dl>>

\* if scihdr['CCDCHIP'] == 1: / elif scihdr['CCDCHIP'] == 2: / else: raise
ThChip(t) ==
    /\ th[t].pc = "chip"
    /\ th' = IF "CCDCHIP" \notin DOMAIN th[t].hdr
             THEN ThRaise(t, KeyError("CCDCHIP"))
             ELSE IF ChipFile(th[t].hdr["CCDCHIP"]) = ""
             THEN ThRaise(t, ChipCaseNotHandled)
             ELSE [th EXCEPT ![t] = [@ EXCEPT !.pc = "getdata",
                                              !.path = ChipFile(th[t].hdr["CCDCHIP"])]]
    /\ UNCHANGED <<disk, mem, data, scihdr, pamcorr, corners, opened, earlier, memo, nb, dl>>

\* Variant of ThGetdata in which pam is a global of the module: the array
\* read becomes the pam of every thread that has yet to multiply.
ThGetdata_global(t) ==
    /\ th[t].pc = "getdata"
    /\ IF th[t].path \notin DOMAIN disk
       THEN /\ th' = ThRaise(t, FileNotFound(th[t].path))
            /\ disk' = disk
       ELSE LET g == fits_getdata(th[t].mem, disk, th[t].path)
            IN  /\ th' = [u \in DOMAIN th |->
                            IF u = t
                            THEN [th[u] EXCEPT !.pc = "multiply", !.mem = g.mem, !.pam = g.ref]
                            ELSE IF th[u].pc = "multiply"
                            THEN [th[u] EXCEPT !.mem = (th[u].pam :> disk[th[t].path]) @@ @]
                            ELSE th[u]]
                /\ disk' = g.disk
    /\ UNCHANGED <<mem, data, scihdr, pamcorr, corners, opened, earlier, memo, nb, dl>>

\* pam = fits.getdata(pamdir + '...'): the one statement that touches what
\* the threads share, the map file.
ThGetdata(t) ==
    /\ th[t].pc = "getdata"
    /\ IF th[t].path \notin DOMAIN disk
       THEN /\ th' = ThRaise(t, FileNotFound(th[t].path))
            /\ disk' = disk
       ELSE LET g == fits_getdata(th[t].mem, disk, th[t].path)
            IN  /\ th' = [th EXCEPT ![t] = [@ EXCEPT !.pc = "multiply",
                                                     !.mem = g.mem, !.pam = g.ref]]
                /\ disk' = g.disk
    /\ UNCHANGED <<mem, data, scihdr, pamcorr, corners, opened, earlier, memo, nb, dl>>

\* pamcorr_data = data * pam[y0:y1, x0:x1]
ThMultiply(t) ==
    /\ th[t].pc = "multiply"
    /\ LET f      == th[t]
           region == Slice(f.mem[f.pam], f.cs.y0, f.cs.y1, f.cs.x0, f.cs.x1)
           new    == NewRef(f.mem)
       IN  th' = IF ~Broadcastable(f.mem[f.data].shape, region.shape)
                 THEN ThRaise(t, BroadcastError)
                 ELSE [th EXCEPT ![t] =
                          [@ EXCEPT !.pc = "return",
                                    !.mem = (new :> Multiply(f.mem[f.data], region)) @@ f.mem,
                                    !.out = [kind |-> "array", ref |-> new]]]
    /\ UNCHANGED <<disk, mem, data, scihdr, pamcorr, corners, opened, earlier, memo, nb, dl>>

\* return pamcorr_data: the frame goes, the argument and the result stay.
ThReturn(t) ==
    /\ th[t].pc = "return"
    /\ th' = [th EXCEPT ![t] = [@ EXCEPT !.pc = "done",
                                         !.mem = Restrict(@, {0, th[t].out.ref})]]
    /\ UNCHANGED <<disk, mem, data, scihdr, pamcorr, corners, opened, earlier, memo, nb, dl>>

NextConc ==
    \E t \in Threads :
        \/ ThCopy(t)
        \/ ThCorners(t)
        \/ ThChip(t)
        \/ ThGetdata(t)
        \/ ThMultiply(t)
        \/ ThReturn(t)

SpecConc == InitConc /\ [][NextConc]_vars

\* ------------------------------------------------------ the download cell
\* query = [('idgga5*','UVIS','FLT',(2,3)), ('i*','IR','IMA',(10,11))]
query == << <<"idgga5*", "UVIS", "FLT", <<2, 3>> >>,
            <<"i*", "IR", "IMA", <<10, 11>> >> >>

Digits == <<"0", "1", "2", "3", "4", "5", "6", "7", "8", "9">>

\* The j-th exposure that matches criterion q: its 9-character observation
\* id, and the name of its product of the type asked for.
Root(q, j) ==
    (IF q = 1 THEN "idgga5m" ELSE "idgga6k")
        \o Digits[((j \div 10) % 10) + 1] \o Digits[(j % 10) + 1]

Product(q, j) ==
    [obs_id |-> Root(q, j),
     productFilename |-> Root(q, j) \o (IF query[q][3] = "FLT" THEN "_flt.fits"
                                                               ELSE "_ima.fits")]

\* Observations.query_criteria, get_product_list and filter_products for
\* criterion q: the n products listed, from the o-th on.
Archive(q, n, o) == [j \in 1..n |-> Product(q, j + o)]

\* s[a:b] for 0 <= a <= b: the stop and the start are clipped to the length.
PySlice(s, a, b) == SubSeq(s, Min(a, Len(s)) + 1, Min(b, Len(s)))

\* Where download_products stores a product, relative to cwd.
LocalPath(p) == <<"mastDownload", "HST", p.obs_id, p.productFilename>>

\* Whether path x lies under directory d.
Under(x, d) == Len(x) > Len(d) /\ SubSeq(x, 1, Len(d)) = d

\* The statement of the cell raises e and the cell ends there.
DlRaise(e) == [dl EXCEPT !.pc = "raised", !.err = e]

\* os.rmdir(d), the cell going on at statement pc: the directory must exist
\* and hold nothing.
os_rmdir(d, pc) ==
    IF d \notin dl.dirs
    THEN DlRaise("FileNotFoundError")
    ELSE IF \E x \in dl.files \cup dl.dirs : Under(x, d)
    THEN DlRaise("OSError: Directory not empty")
    ELSE [dl EXCEPT !.pc = pc, !.dirs = @ \ {d}]

\* The cell is about to run in a working directory that holds no
\* mastDownload directory, and the images of an earlier run or not.
DownloadStarts ==
    {[pc |-> "query", q |-> 1,
      archive |-> <<Archive(1, n1, o1), Archive(2, n2, o2)>>,
      filtered_products |-> <<>>, download_table |-> <<>>, i |-> 1,
      filename |-> "", files |-> prior, dirs |-> {}, err |-> ""] :
        n1 \in query[1][4][2]..(query[1][4][2] + 1),
        n2 \in query[2][4][2]..(query[2][4][2] + 1),
        o1 \in 0..MaxShift, o2 \in 0..MaxShift,
        prior \in SUBSET {<<Product(1, 3).productFilename>>,
                          <<Product(2, 11).productFilename>>}}

InitLoop ==
    /\ disk = PamFiles
    /\ mem = (0 :> Image(1, 1))
    /\ data = 0
    /\ scihdr = ThreadHeader(1, 0, 0, 1)
    /\ pamcorr = Unbound
    /\ corners = NoCorners
    /\ opened = <<>>
    /\ earlier = FALSE
    /\ memo = NoMemo
    /\ nb = NoCells
    /\ th = <<>>
    /\ dl \in DownloadStarts

\* obs_table = ...; products = ...; filtered_products = ... for criteria
DlQuery ==
    /\ dl.pc = "query"
    /\ dl' = [dl EXCEPT !.pc = "download", !.filtered_products = dl.archive[dl.q]]
    /\ UNCHANGED <<disk, mem, data, scihdr, pamcorr, corners, opened, earlier, memo, nb, th>>

\* download_table = Observations.download_products(
\*     filtered_products[criteria[3][0]:criteria[3][1]], mrp_only=False)
DlDownload ==
    /\ dl.pc = "download"
    /\ LET rows  == PySlice(dl.filtered_products, query[dl.q][4][1], query[dl.q][4][2])
           paths == [j \in DOMAIN rows |-> LocalPath(rows[j])]
           new   == {paths[j] : j \in DOMAIN paths}
       IN  dl' = [dl EXCEPT !.pc = IF Len(paths) = 0 THEN "rmdir_hst" ELSE "rename",
                            !.download_table = paths,
                            !.i = 1,
                            !.files = @ \cup new,
                            !.dirs = @ \cup {SubSeq(x, 1, k) : x \in new, k \in 1..3}]
    /\ UNCHANGED <<disk, mem, data, scihdr, pamcorr, corners, opened, earlier, memo, nb, th>>

\* Variant of DlRename that copies the file to cwd and leaves the download
\* where it is.
DlRename_copy ==
    /\ dl.pc = "rename"
    /\ LET file == dl.download_table[dl.i]
           filename == file[Len(file)]
       IN  dl' = IF file \notin dl.files
                 THEN DlRaise("FileNotFoundError")
                 ELSE [dl EXCEPT !.pc = "rmdir_obs", !.filename = filename,
                                 !.files = @ \cup {<<file[Len(file)]>>}]
    /\ UNCHANGED <<disk, mem, data, scihdr, pamcorr, corners, opened, earlier, memo, nb, th>>

\* for file in download_table['Local Path']:
\*     filename = file.split('/')[-1]; os.rename(file, os.path.basename(file))
\* (a file of that name in cwd is replaced).
DlRename ==
    /\ dl.pc = "rename"
    /\ LET file == dl.download_table[dl.i]
           filename == file[Len(file)]
       IN  dl' = IF file \notin dl.files
                 THEN DlRaise("FileNotFoundError")
                 ELSE [dl EXCEPT !.pc = "rmdir_obs", !.filename = filename,
                                 !.files = (@ \ {file}) \cup {<<file[Len(file)]>>}]
    /\ UNCHANGED <<disk, mem, data, scihdr, pamcorr, corners, opened, earlier, memo, nb, th>>

\*     os.rmdir('mastDownload/HST/'+filename[:9]), then the next file if any
DlRmdirObs ==
    /\ dl.pc = "rmdir_obs"
    /\ LET d == <<"mastDownload", "HST", SubSeq(dl.filename, 1, Min(9, Len(dl.filename)))>>
           r == os_rmdir(d, IF dl.i < Len(dl.download_table) THEN "rename" ELSE "rmdir_hst")
       IN  dl' = IF r.pc = "raised" THEN r ELSE [r EXCEPT !.i = @ + 1]
    /\ UNCHANGED <<disk, mem, data, scihdr, pamcorr, corners, opened, earlier, memo, nb, th>>

\* os.rmdir('mastDownload/HST/')
DlRmdirHST ==
    /\ dl.pc = "rmdir_hst"
    /\ dl' = os_rmdir(<<"mastDownload", "HST">>, "rmdir_mast")
    /\ UNCHANGED <<disk, mem, data, scihdr, pamcorr, corners, opened, earlier, memo, nb, th>>

\* os.rmdir('mastDownload/'), then the next criteria if any
DlRmdirMast ==
    /\ dl.pc = "rmdir_mast"
    /\ LET r == os_rmdir(<<"mastDownload">>, IF dl.q < Len(query) THEN "query" ELSE "end")
       IN  dl' = IF r.pc = "raised" THEN r ELSE [r EXCEPT !.q = @ + 1]
    /\ UNCHANGED <<disk, mem, data, scihdr, pamcorr, corners, opened, earlier, memo, nb, th>>

NextLoop ==
    \/ DlQuery
    \/ DlDownload
    \/ DlRename
    \/ DlRmdirObs
    \/ DlRmdirHST
    \/ DlRmdirMast

SpecLoop == InitLoop /\ [][NextLoop]_vars

\* -------------------------------------------------------------- properties
\* What the statements below speak of, read off the state without the
\* operators of the function.
Done == pamcorr # Unbound

IsArray == pamcorr.kind = "array" /\ pamcorr.ref \in DOMAIN mem

IsRaise == pamcorr.kind = "raise"

image == mem[data]

result == mem[pamcorr.ref]

GeometryKeys == {"LTV1", "LTV2", "NAXIS1", "NAXIS2"}

Abs(n) == IF n < 0 THEN -n ELSE n

\* The integer part of |n / LtvDen|: the k with k <= |n| / LtvDen < k + 1.
Trunc(n) ==
    CHOOSE k \in 0..MaxLtv : k * LtvDen <= Abs(n) /\ Abs(n) < (k + 1) * LtvDen

X0 == Trunc(scihdr["LTV1"])

Y0 == Trunc(scihdr["LTV2"])

SupportedChip == "CCDCHIP" \in DOMAIN scihdr /\ scihdr["CCDCHIP"] \in {1, 2}

\* The map of the header's chip, as it was when the session began.
ChipPam == Pam(scihdr["CCDCHIP"])

OtherPam == Pam(3 - scihdr["CCDCHIP"])

ShapeMatches ==
    scihdr["NAXIS1"] = image.shape[2] /\ scihdr["NAXIS2"] = image.shape[1]

InsideMap ==
    /\ Y0 + scihdr["NAXIS2"] <= ChipPam.shape[1]
    /\ X0 + scihdr["NAXIS1"] <= ChipPam.shape[2]

ValidInput ==
    /\ DOMAIN scihdr = Keys
    /\ SupportedChip
    /\ ShapeMatches
    /\ InsideMap

\* Every cell of the result is the image's cell times the cell of map pam
\* at the sub-rectangle's offset.
CellwiseProduct(pam) ==
    \A p \in Idx(image.shape[1], image.shape[2]) :
        /\ p \in DOMAIN result.cell
        /\ <<Y0 + p[1], X0 + p[2]>> \in DOMAIN pam.cell
        /\ result.cell[p] = image.cell[p] * pam.cell[<<Y0 + p[1], X0 + p[2]>>]

\* C1: for every valid input the call returns an array whose cell [r, c] is
\* image[r, c] * PAM[CCDCHIP][y0 + r, x0 + c], for every r < NAXIS2 and
\* c < NAXIS1, with x0 = |LTV1| and y0 = |LTV2|.
C1_CellwiseProduct ==
    (Done /\ ValidInput) => (IsArray /\ CellwiseProduct(ChipPam))

C1_Witness ==
    /\ Done /\ ValidInput /\ IsArray
    /\ Y0 = 1 /\ X0 = 0
    /\ image.shape = <<1, 2>>

\* C2: for every valid input the call returns an array of the shape of the
\* image, NAXIS2 rows by NAXIS1 columns.
C2_SameShape ==
    (Done /\ ValidInput) =>
        /\ IsArray
        /\ result.shape = image.shape
        /\ result.shape = <<scihdr["NAXIS2"], scihdr["NAXIS1"]>>
        /\ DOMAIN result.cell = Idx(image.shape[1], image.shape[2])

C2_Witness ==
    /\ Done /\ ValidInput /\ IsArray
    /\ image.shape = <<2, 1>>
    /\ result.shape = <<2, 1>>

\* C3: with CCDCHIP = 1 the call reads the UVIS1 map and never the UVIS2
\* map, with CCDCHIP = 2 the UVIS2 map and never the UVIS1 map; the two maps
\* being distinct, the result of a valid input is the product with the map
\* of the header's chip and not the product with the other map.
C3_ChipSelection ==
    (Done /\ DOMAIN scihdr = Keys /\ SupportedChip) =>
        /\ scihdr["CCDCHIP"] = 1 => opened = <<UVIS1>>
        /\ scihdr["CCDCHIP"] = 2 => opened = <<UVIS2>>
        /\ ValidInput =>
              /\ IsArray
              /\ CellwiseProduct(ChipPam)
              /\ ~CellwiseProduct(OtherPam)

C3_Witness ==
    /\ Done /\ ValidInput /\ IsArray
    /\ scihdr["CCDCHIP"] = 2
    /\ opened = <<UVIS2>>
    /\ result.cell[<<0, 0>>] = image.cell[<<0, 0>>] * Pam(2).cell[<<Y0, X0>>]

\* The chip is unsupported: the keyword holds a value other than 1 and 2, or
\* the header lacks the keyword (and has the four geometry keywords).
UnsupportedChip ==
    /\ GeometryKeys \subseteq DOMAIN scihdr
    /\ ~SupportedChip

\* C4, as stated: an unsupported chip, the keyword lacking included, makes
\* the call raise 'Chip case not handled.'; no array is returned and no map
\* is read.
C4_UnsupportedChipRaisesChipError ==
    (Done /\ UnsupportedChip) =>
        /\ IsRaise
        /\ pamcorr.exc = ChipCaseNotHandled
        /\ opened = <<>>

\* C4, amended: a CCDCHIP other than 1 and 2 makes the call raise 'Chip case
\* not handled.', a header that lacks CCDCHIP makes it raise KeyError for
\* that keyword; in both cases no array is returned and no map is read.
C4_UnsupportedChipRaises ==
    (Done /\ UnsupportedChip) =>
        /\ IsRaise
        /\ "CCDCHIP" \in DOMAIN scihdr => pamcorr.exc = ChipCaseNotHandled
        /\ "CCDCHIP" \notin DOMAIN scihdr => pamcorr.exc = KeyError("CCDCHIP")
        /\ opened = <<>>
        /\ DOMAIN mem = {data}

C4_Witness ==
    /\ Done /\ UnsupportedChip /\ IsRaise
    /\ "CCDCHIP" \in DOMAIN scihdr
    /\ scihdr["CCDCHIP"] = 3
    /\ pamcorr.exc = ChipCaseNotHandled

\* C5: when y1 = |LTV2| + NAXIS2 exceeds the rows of the selected map or
\* x1 = |LTV1| + NAXIS1 its columns, the call fails and returns no array: it
\* never multiplies by a clipped slice of the map.  (Stated for any raise;
\* the function has no error of its own for the geometry.)
C5_OutOfBoundsFails ==
    (Done /\ DOMAIN scihdr = Keys /\ SupportedChip /\ ~InsideMap) => IsRaise

\* C6: when NAXIS1 differs from the image's columns or NAXIS2 from its rows,
\* the call fails and returns no array.  (Stated for any raise; the function
\* has no error of its own for the shape.)
C6_ShapeMismatchFails ==
    (Done /\ DOMAIN scihdr = Keys /\ ~ShapeMatches) => IsRaise

\* C7: a call, returning or raising, leaves every cell of the caller's image
\* as it was, and an array it returns is another object than the image.
C7_InputNotMutated ==
    [][pamcorr' # Unbound =>
          /\ data' = data
          /\ data \in DOMAIN mem'
          /\ mem'[data] = mem[data]
          /\ pamcorr'.kind = "array" =>
                (pamcorr'.ref # data /\ pamcorr'.ref \in DOMAIN mem')]_vars

C7_Witness ==
    /\ Done /\ IsArray
    /\ pamcorr.ref # data
    /\ image = Image(2, 2)
    /\ result # image

\* C8: after any sequence of calls on different images, every cell of every
\* map holds its original value, and a call made after earlier ones
\* multiplies by the original values.
C8_MapsUnchanged ==
    /\ disk = PamFiles
    /\ (earlier /\ Done /\ ValidInput) => (IsArray /\ CellwiseProduct(ChipPam))

C8_Witness ==
    /\ earlier /\ Done /\ ValidInput /\ IsArray
    /\ disk = PamFiles
    /\ opened # <<>>

\* C9: a call ends either with the fully corrected array, of the shape of
\* the image and every cell the image's cell times its cell of the map, or
\* with an error and no array.
C9_AllOrNothing ==
    Done =>
        \/ IsRaise
        \/ /\ IsArray
           /\ result.shape = image.shape
           /\ CellwiseProduct(ChipPam)

\* C10: x0 = |LTV1| and y0 = |LTV2|, each truncated toward zero, and
\* x1 = x0 + NAXIS1, y1 = y0 + NAXIS2, for every header that has the four
\* keywords; so x1 - x0 = NAXIS1 and y1 - y0 = NAXIS2.
C10_Corners ==
    (Done /\ GeometryKeys \subseteq DOMAIN scihdr) =>
        /\ corners.set
        /\ corners.x0 * LtvDen <= Abs(scihdr["LTV1"])
        /\ Abs(scihdr["LTV1"]) < (corners.x0 + 1) * LtvDen
        /\ corners.y0 * LtvDen <= Abs(scihdr["LTV2"])
        /\ Abs(scihdr["LTV2"]) < (corners.y0 + 1) * LtvDen
        /\ corners.x1 - corners.x0 = scihdr["NAXIS1"]
        /\ corners.y1 - corners.y0 = scihdr["NAXIS2"]

\* LTV1 = -3/2: |LTV1| = 1.5 is truncated to 1, not rounded to 2.
C10_Witness ==
    /\ Done /\ corners.set
    /\ scihdr["LTV1"] = -3 /\ LtvDen = 2
    /\ corners.x0 = 1
    /\ corners.x1 = 1 + scihdr["NAXIS1"]

\* The map file named after chip c ("" when the model has none).
FileOfChip(c) ==
    CASE c = 1 -> UVIS1
      [] c = 2 -> UVIS2
      [] c = 3 -> UVIS3
      [] OTHER -> ""

\* The map on disk of the header's chip, whatever the working directory.
ChipMap == disk[FileOfChip(scihdr["CCDCHIP"])]

InsideChipMap ==
    /\ Y0 + scihdr["NAXIS2"] <= ChipMap.shape[1]
    /\ X0 + scihdr["NAXIS1"] <= ChipMap.shape[2]

ValidCall ==
    /\ DOMAIN scihdr = Keys
    /\ SupportedChip
    /\ ShapeMatches
    /\ InsideChipMap

\* Every cell of the map region pam[y0:y1, x0:x1] of a valid call is 1.
RegionOnes ==
    \A p \in Idx(scihdr["NAXIS2"], scihdr["NAXIS1"]) :
        ChipMap.cell[<<Y0 + p[1], X0 + p[2]>>] = 1

\* C11: when every cell of the selected map region pam[y0:y1, x0:x1] is 1,
\* the call (on a valid input) returns an array equal to the image, cell
\* for cell.
C11_Identity ==
    (Done /\ ValidCall /\ RegionOnes) =>
        /\ IsArray
        /\ result.shape = image.shape
        /\ \A p \in Idx(image.shape[1], image.shape[2]) :
              p \in DOMAIN result.cell /\ result.cell[p] = image.cell[p]

\* A region of ones inside a map that has other values elsewhere.
C11_Witness ==
    /\ Done /\ ValidCall /\ RegionOnes /\ IsArray
    /\ disk = UnitFiles
    /\ scihdr["CCDCHIP"] = 2
    /\ image.shape = <<1, 2>>
    /\ result.cell = image.cell

\* The inputs of the scenario: image [[10,20],[30,40]], LTV1 = LTV2 = -1,
\* NAXIS1 = NAXIS2 = 2, CCDCHIP = 1, and a 4 x 4 chip-1 map filled with 2.
Scenario ==
    /\ image.shape = <<2, 2>>
    /\ image.cell = (<<0, 0>> :> 10) @@ (<<0, 1>> :> 20)
                    @@ (<<1, 0>> :> 30) @@ (<<1, 1>> :> 40)
    /\ scihdr = [LTV1 |-> -LtvDen, LTV2 |-> -LtvDen,
                 NAXIS1 |-> 2, NAXIS2 |-> 2, CCDCHIP |-> 1]
    /\ disk[UVIS1].shape = <<4, 4>>
    /\ \A p \in DOMAIN disk[UVIS1].cell : disk[UVIS1].cell[p] = 2

\* C13: on the scenario's inputs the call computes x0 = 1, y0 = 1, x1 = 3,
\* y1 = 3 and returns [[20,40],[60,80]].
C13_Scenario ==
    (Done /\ Scenario) =>
        /\ corners = [set |-> TRUE, x0 |-> 1, y0 |-> 1, x1 |-> 3, y1 |-> 3]
        /\ IsArray
        /\ result.shape = <<2, 2>>
        /\ result.cell = (<<0, 0>> :> 20) @@ (<<0, 1>> :> 40)
                         @@ (<<1, 0>> :> 60) @@ (<<1, 1>> :> 80)

C13_Witness ==
    /\ Done /\ Scenario /\ IsArray
    /\ opened = <<UVIS1>>
    /\ result.cell[<<1, 1>>] = 80

\* The shape of pam[y0:y1, x0:x1] on the map of the header's chip: each stop
\* and start no further than the end of the axis.
RegionShape ==
    <<Max(Min(Y0 + scihdr["NAXIS2"], ChipMap.shape[1]) - Min(Y0, ChipMap.shape[1]), 0),
      Max(Min(X0 + scihdr["NAXIS1"], ChipMap.shape[2]) - Min(X0, ChipMap.shape[2]), 0)>>

\* C16: the call never returns a result when the map region the header
\* selects has another shape than the image; a region or an image with an
\* axis of length 1 is never broadcast against the other operand.
C16_NoBroadcast ==
    (Done /\ IsArray) => RegionShape = image.shape

\* C19, as stated: the call accepts the chips that have a map in the
\* collection supplied (here: a map file in the working directory), so only
\* a chip without a map gets the unsupported-chip error.
C19_DataDrivenDispatch ==
    (Done /\ DOMAIN scihdr = Keys) =>
        (IsRaise /\ pamcorr.exc = ChipCaseNotHandled
            <=> FileOfChip(scihdr["CCDCHIP"]) \notin DOMAIN disk)

\* C19, amended: the call accepts the chips 1 and 2 and no other, whatever
\* map files the working directory holds: any other chip gets the
\* unsupported-chip error and no file is read, also when a map file for
\* that chip exists.
C19_HardCodedDispatch ==
    (Done /\ DOMAIN scihdr = Keys) =>
        /\ scihdr["CCDCHIP"] \in {1, 2} =>
              /\ opened = <<FileOfChip(scihdr["CCDCHIP"])>>
              /\ ~(IsRaise /\ pamcorr.exc = ChipCaseNotHandled)
        /\ scihdr["CCDCHIP"] \notin {1, 2} =>
              /\ IsRaise
              /\ pamcorr.exc = ChipCaseNotHandled
              /\ opened = <<>>

C19_Witness ==
    /\ Done /\ DOMAIN scihdr = Keys
    /\ scihdr["CCDCHIP"] = 3
    /\ UVIS3 \in DOMAIN disk
    /\ IsRaise
    /\ pamcorr.exc = ChipCaseNotHandled

\* C20, as stated: the map of a chip is loaded at most once; a call that
\* follows a call which loaded the map does not load it again.
C20_LoadedOnce ==
    [][(pamcorr # Unbound /\ opened # <<>> /\ pamcorr' # Unbound) =>
          opened' = <<>>]_vars

\* C20, amended: every call for chip 1 or 2 loads that chip's map file
\* itself, once, also when the call before has loaded it; the file is only
\* read, so every load finds the same values.
C20_LoadedEachCall ==
    [][(pamcorr' # Unbound /\ DOMAIN scihdr' = Keys /\ scihdr'["CCDCHIP"] \in {1, 2}) =>
          /\ opened' = <<FileOfChip(scihdr'["CCDCHIP"])>>
          /\ disk' = disk]_vars

\* The second of two calls in a row (the result of the first was still
\* bound, so the new array took the next reference) has read the map file.
C20_Witness ==
    /\ Done /\ IsArray
    /\ pamcorr.ref = 4
    /\ opened = <<UVIS1>>
    /\ disk = PamFiles

\* ----------------------------------------------------------------- C12
IsPowerOfTwo(k) == \E e \in 0..MantBits : k = 2 ^ e

\* The current call is on k * (the image of the call kept) under the same
\* header, a valid input: its result is k * (the result kept).
Linear(k) ==
    (/\ Done
     /\ memo.set
     /\ scihdr = memo.hdr
     /\ ValidInput
     /\ image = Scaled(k, memo.image))
    => (/\ IsArray
        /\ memo.out.kind = "array"
        /\ result = Scaled(k, memo.out.value))

C14_Purity ==
    (Done /\ memo.set) =>
        /\ ~OtherArguments => OutcomeValue = memo.out
        /\ disk = PamFiles
        /\ DOMAIN mem = {data} \cup (IF pamcorr.kind = "array" THEN {pamcorr.ref} ELSE {})

C14_Witness ==
    /\ Done
    /\ IsArray
    /\ memo.set
    /\ memo.between
    /\ ~OtherArguments
    /\ OutcomeValue = memo.out

\* ----------------------------------------------------------------- C18
\* The current header is the header of the call kept up to the signs of LTV1
\* and LTV2.
SignsOnly ==
    /\ DOMAIN scihdr = DOMAIN memo.hdr
    /\ \A k \in DOMAIN scihdr :
           IF k \in {"LTV1", "LTV2"}
           THEN Abs(scihdr[k]) = Abs(memo.hdr[k])
           ELSE scihdr[k] = memo.hdr[k]

\* C18: two calls on the same image whose headers differ only in the sign of
\* LTV1 and/or LTV2 have the same outcome: the same array, or the same
\* exception; a positive LTV1 or LTV2 raises nothing of its own.
C18_SignMasking ==
    (Done /\ memo.set /\ image = memo.image /\ SignsOnly) => OutcomeValue = memo.out

C18_Witness ==
    /\ Done
    /\ IsArray
    /\ memo.set
    /\ image = memo.image
    /\ SignsOnly
    /\ DOMAIN scihdr = Keys
    /\ scihdr["LTV1"] > 0
    /\ memo.hdr["LTV1"] < 0
    /\ X0 > 0
    /\ OutcomeValue = memo.out

\* ----------------------------------------------------------------- C17
\* C17: once the step-by-step cells and the function have both run on the
\* image, header and map files of the session, they have the same corners and
\* the same outcome: the same array, or the same exception; so one raises
\* 'Chip case not handled.' exactly when the other does.
C17_CellsEquivalent ==
    (Done /\ nb.pc = "done") =>
        /\ OutcomeValue = nb.out
        /\ nb.corners = corners
        /\ (IsRaise /\ pamcorr.exc = ChipCaseNotHandled)
             <=> (nb.out.kind = "raise" /\ nb.out.exc = ChipCaseNotHandled)

C17_Witness ==
    /\ Done
    /\ nb.pc = "done"
    /\ IsArray
    /\ nb.out.kind = "array"
    /\ nb.out.value = result
    /\ scihdr["CCDCHIP"] = 2
    /\ X0 > 0

\* ----------------------------------------------------------------- C15
\* What the call of thread t gave its caller, arrays by their contents.
ThOutcome(t) ==
    IF th[t].out.kind = "array"
    THEN [kind |-> "array", value |-> th[t].mem[th[t].out.ref]]
    ELSE th[t].out

\* What the call of thread t gives when it runs alone on the original files.
Alone(t) ==
    LET r == make_PAMcorr_image_UVIS((0 :> th[t].mem[0]), 0, th[t].hdr, PamFiles)
    IN  IF r.out.kind = "array"
        THEN [kind |-> "array", value |-> r.mem[r.out.ref]]
        ELSE r.out

\* C15: under every interleaving of the threads' statements, a call that has
\* ended has the outcome it has when run alone (the same array, or the same
\* exception), its image is as it was, and the map files are unchanged.
C15_Concurrent ==
    /\ disk = PamFiles
    /\ \A t \in DOMAIN th :
           /\ th[t].mem[0] = Image(th[t].hdr["NAXIS1"], th[t].hdr["NAXIS1"])
           /\ th[t].pc = "done" => ThOutcome(t) = Alone(t)

C15_Witness ==
    /\ DOMAIN th = Threads
    /\ \A t \in Threads : th[t].pc = "done" /\ th[t].out.kind = "array"
    /\ th[1].hdr["CCDCHIP"] # th[2].hdr["CCDCHIP"]
    /\ ThOutcome(1) # ThOutcome(2)

\* ----------------------------------------------------------------- C22
\* C22: a call reads at most one map file, and a file it reads is the one
\* named for the header's chip under pamdir (UVIS1wfc3_map.fits for
\* CCDCHIP = 1, UVIS2wfc3_map.fits for CCDCHIP = 2); a call whose CCDCHIP is
\* another value raises and has read no map file.
C22_AtMostOneMapRead ==
    Done =>
        /\ Len(opened) <= 1
        /\ \A i \in DOMAIN opened :
               /\ "CCDCHIP" \in DOMAIN scihdr
               /\ scihdr["CCDCHIP"] \in {1, 2}
               /\ opened[i] = pamdir \o (IF scihdr["CCDCHIP"] = 1
                                         THEN "UVIS1wfc3_map.fits"
                                         ELSE "UVIS2wfc3_map.fits")
        /\ ("CCDCHIP" \in DOMAIN scihdr /\ scihdr["CCDCHIP"] \notin {1, 2}) =>
               (IsRaise /\ opened = <<>>)

C22_Witness ==
    /\ Done
    /\ DOMAIN scihdr = Keys
    /\ scihdr["CCDCHIP"] = 1
    /\ Len(opened) = 1
    /\ opened[1] = "UVIS1wfc3_map.fits"
    /\ UVIS2 \in DOMAIN disk

\* ----------------------------------------------------------------- C23
\* The header has a CCDCHIP other than 1 and 2.
OtherChip == "CCDCHIP" \in DOMAIN scihdr /\ scihdr["CCDCHIP"] \notin {1, 2}

\* The sub-rectangle of the header does not fit a map of MapDim x MapDim.
OutOfBounds ==
    /\ GeometryKeys \subseteq DOMAIN scihdr
    /\ (X0 + scihdr["NAXIS1"] > MapDim \/ Y0 + scihdr["NAXIS2"] > MapDim)

\* C23: for a CCDCHIP other than 1 and 2 the call raises 'Chip case not
\* handled.' whatever values the four geometry keywords hold, a
\* sub-rectangle out of the maps' bounds or unlike the image included: the
\* corners are computed, no map is read and nothing is sliced.
C23_ChipErrorPrecedence ==
    (Done /\ OtherChip /\ GeometryKeys \subseteq DOMAIN scihdr) =>
        /\ IsRaise
        /\ pamcorr.exc = ChipCaseNotHandled
        /\ corners = Corners(scihdr)
        /\ opened = <<>>

C23_Witness ==
    /\ Done
    /\ OtherChip
    /\ OutOfBounds
    /\ ~ShapeMatches
    /\ IsRaise
    /\ pamcorr.exc = ChipCaseNotHandled

\* ----------------------------------------------------------------- C21
\* The body of the loop over the criteria has just ended for a criterion.
BodyEnded == dl.pc = "end" \/ (dl.pc = "query" /\ dl.q > 1)

\* The directory the rmdir about to run is given.
RmdirTarget ==
    CASE dl.pc = "rmdir_obs"  -> <<"mastDownload", "HST", SubSeq(dl.filename, 1, 9)>>
      [] dl.pc = "rmdir_hst"  -> <<"mastDownload", "HST">>
      [] dl.pc = "rmdir_mast" -> <<"mastDownload">>

\* C21: when the body of the loop has ended for a criterion, every file of
\* its download table is in cwd under its base name and no longer where it
\* was downloaded, and no directory mastDownload, mastDownload/HST or
\* mastDownload/HST/<first 9 characters of a file name> is left; every rmdir
\* is given a directory that exists and is empty; no statement of the cell
\* raises, and the cell goes on until its end, for both criteria.
C21_DownloadAndMove ==
    /\ dl.pc # "raised"
    /\ dl.pc \in {"query", "download", "rename", "rmdir_obs", "rmdir_hst", "rmdir_mast"}
           => ENABLED NextLoop
    /\ dl.pc \in {"rmdir_obs", "rmdir_hst", "rmdir_mast"} =>
           /\ RmdirTarget \in dl.dirs
           /\ ~\E x \in dl.files \cup dl.dirs : Under(x, RmdirTarget)
    /\ BodyEnded =>
           /\ Len(dl.download_table) > 0
           /\ \A j \in DOMAIN dl.download_table :
                  /\ <<dl.download_table[j][4]>> \in dl.files
                  /\ dl.download_table[j] \notin dl.files
           /\ ~\E d \in dl.dirs : d[1] = "mastDownload"

C21_Witness ==
    /\ dl.pc = "end"
    /\ dl.q = 3
    /\ <<"idgga5m03_flt.fits">> \in dl.files
    /\ <<"idgga6k12_ima.fits">> \in dl.files
    /\ dl.dirs = {}

====
